---- MODULE Spec2Model ----
(***************************************************************************)
(* Model of the polling helpers and the credential store of                *)
(* tripleoclient/utils.py.  Each helper is its own state machine over its  *)
(* own variables; a specification of one helper keeps the other helpers'   *)
(* variables at their idle values.                                         *)
(***************************************************************************)
EXTENDS Integers, Sequences, FiniteSets, TLC

VARIABLES
  \* ---- wait_for_node_introspection (utils.py 290-333) ----
  input_uuids,     \* the caller's list object passed as node_uuids
  node_uuids,      \* the generator's local list (line 310)
  it_loops,        \* parameter loops
  it_finishAt,     \* remote service: round from which get_status(n) reports finished
  it_errnode,      \* remote service: the node whose status carries an error
  it_pc,           \* position of the generator
  it_round,        \* number of iterations of the outer loop started so far
  it_idx,          \* elements the list iterator of line 314 has handed out
  it_yielded,      \* history: the pairs produced so far, with the round of each
  it_queries,      \* history: every get_status call as <<round, node>>
  it_roundStart,   \* history: node_uuids when the current round started
  it_exc,          \* the exception that ended the generator, if any
  it_sleeps,       \* history: number of time.sleep calls
  it_logged,       \* history: node ids of the log.error of lines 331-333 (<< >>: none)
  \* ---- wait_for_stack_ready (utils.py 179-229) ----
  ws_action,       \* parameter action
  ws_marker0,      \* parameter marker as passed
  stack,           \* local: what get_stack returned (line 201)
  stack_name,      \* parameter stack_name (the stack's name or its UUID), rebound
                   \* to stack.stack_name at line 204
  marker,          \* local: the event cursor (lines 179, 214)
  ws_pc,           \* position of the poller
  ws_ret,          \* its return value, once returned
  ws_exc,          \* the exception that ended it, if any
  log,             \* remote service: the stack's events in creation order
  published,       \* remote service: how many events of log exist so far
  ws_lookup,       \* history: how orchestration_client.stacks.get ended
  ws_seen,         \* history: ids of the events get_events returned, in order
  ws_fetched,      \* history: get_events has been called
  ws_slept,        \* history: time.sleep has been called
  \* ---- wait_for_provision_state (utils.py 250-287) ----
  pv_loops,        \* parameter loops
  pv_target,       \* parameter provision_state
  pv_i,            \* iterations of the for loop of line 273 begun so far
  pv_pc,           \* position of the poller
  pv_ret,          \* its return value, once returned
  pv_exc,          \* the exception that ended it, if any
  pv_observed,     \* history: what each answered node.get returned, in order
  pv_fetches,      \* history: number of node.get calls
  pv_sleeps,       \* history: number of time.sleep calls
  \* ---- generate_overcloud_passwords (utils.py 36-76) ----
  pw_file,         \* the output file: whether it exists, and its text
  pw_returned,     \* the dictionary the last call returned, as its set of items
  pw_exc,          \* the exception that ended the last call, if any
  pw_calls,        \* history: number of calls so far
  pw_before,       \* history: the name/value pairs of the file before the last call
  pw_prevret,      \* history: the name/value pairs the call before the last returned
  \* ---- get_password (utils.py 456-467) and its callers ----
  __password_cache, \* the module global of line 456
  gp_name,         \* per caller: parameter pass_name
  gp_pc,           \* per caller: position in get_password / generate_overcloud_passwords
  gp_local,        \* per caller: the local `passwords` of generate_overcloud_passwords
  gp_ret,          \* per caller: the value returned, once returned
  gp_exc,          \* per caller: the exception that ended the call, if any
  gp_runs,         \* history: calls of generate_overcloud_passwords begun
  gp_file0,        \* history: the name/value pairs of the file before any call
  \* ---- check_nodes_count (utils.py 530-560) ----
  cn_stack,        \* parameter stack: None, or a stack with its recorded parameters
  cn_parameters,   \* parameter parameters: the override mapping
  cn_defaults,     \* parameter defaults: parameter name -> static default
  cn_nodes,        \* remote service: the bare-metal inventory
  cn_pc,           \* position of the call
  cn_ret,          \* its return value, once returned
  cn_exc,          \* the exception that ended it, if any
  cn_count,        \* local count once the loop of lines 533-543 is over (-1 before)
  cn_reported,     \* the (available, requested) pair of the DeploymentError message
  cn_lists,        \* history: number of node.list calls
  \* ---- file_checksum (utils.py 510-527) ----
  ck_isfile,       \* file system: filepath names a regular file
  ck_content,      \* file system: the bytes of the file
  ck_pos,          \* the read position of the open file f
  checksum,        \* local: the state of the hash accumulator
  ck_pc,           \* position of the call
  ck_ret,          \* its return value, once returned
  ck_exc,          \* the exception that ended it, if any
  ck_reads,        \* history: number of f.read calls
  ck_updates,      \* history: number of checksum.update calls
  \* ---- set_nodes_state (utils.py 374-420) ----
  sn_nodes,        \* parameter nodes: the node objects, each with the state it had
                   \* when it was listed
  sn_target,       \* parameter target_state
  sn_skipped,      \* parameter skipped_states
  sn_idx,          \* elements the for loop of line 404 is done with
  sn_pc,           \* position of the generator
  sn_exc,          \* the exception that ended it, if any
  sn_requests,     \* history: uuids of the set_provision_state calls, in order
  sn_waits,        \* history: every wait that returned, with its node and result
  sn_yielded       \* history: the uuids produced so far

it_vars == <<input_uuids, node_uuids, it_loops, it_finishAt, it_errnode, it_pc,
             it_exc, it_round, it_idx, it_yielded, it_queries, it_roundStart,
             it_sleeps, it_logged>>

ws_vars == <<ws_action, ws_marker0, stack, stack_name, marker, ws_pc,
             ws_ret, ws_exc, log, published, ws_lookup, ws_seen, ws_fetched,
             ws_slept>>

pv_vars == <<pv_loops, pv_target, pv_i, pv_pc, pv_ret, pv_exc, pv_observed,
             pv_fetches, pv_sleeps>>

pw_vars == <<pw_file, pw_returned, pw_exc, pw_calls, pw_before, pw_prevret>>

gp_vars == <<__password_cache, gp_name, gp_pc, gp_local, gp_ret, gp_exc, gp_runs,
             gp_file0>>

cn_vars == <<cn_stack, cn_parameters, cn_defaults, cn_nodes, cn_pc, cn_ret, cn_exc,
             cn_count, cn_reported, cn_lists>>

ck_vars == <<ck_isfile, ck_content, ck_pos, checksum, ck_pc, ck_ret, ck_exc,
             ck_reads, ck_updates>>

sn_vars == <<sn_nodes, sn_target, sn_skipped, sn_idx, sn_pc, sn_exc, sn_requests,
             sn_waits, sn_yielded>>

vars == <<it_vars, ws_vars, pv_vars, pw_vars, gp_vars, cn_vars, ck_vars, sn_vars>>

\* what each helper leaves alone: the variables of the other helpers
it_others == <<ws_vars, pv_vars, pw_vars, gp_vars, cn_vars, ck_vars, sn_vars>>
ws_others == <<it_vars, pv_vars, pw_vars, gp_vars, cn_vars, ck_vars, sn_vars>>
pv_others == <<it_vars, ws_vars, pw_vars, gp_vars, cn_vars, ck_vars, sn_vars>>
pw_others == <<it_vars, ws_vars, pv_vars, gp_vars, cn_vars, ck_vars, sn_vars>>
cn_others == <<it_vars, ws_vars, pv_vars, pw_vars, gp_vars, ck_vars, sn_vars>>
ck_others == <<it_vars, ws_vars, pv_vars, pw_vars, gp_vars, cn_vars, sn_vars>>
\* the callers of get_password share the credential file with the generator
\* set_nodes_state runs wait_for_provision_state, whose variables it shares
sn_others == <<it_vars, ws_vars, pw_vars, gp_vars, cn_vars, ck_vars>>
gp_others == <<it_vars, ws_vars, pv_vars, cn_vars, ck_vars, sn_vars, pw_returned, pw_exc, pw_calls,
               pw_before, pw_prevret>>

(***************************************************************************)
(* Bounds                                                                  *)
(***************************************************************************)
MaxLoops == 3

MaxEvents == 3

\* how many names of _PASSWORD_NAMES the model keeps
NumNames == 2

\* how many calls of generate_overcloud_passwords a behaviour makes
MaxCalls == 2

\* how many concurrent callers of get_password a process has
NumCallers == 2

\* the largest node count a parameter, an override or a default asks for
MaxCount == 1

\* the largest number of nodes in the bare-metal inventory
MaxNodes == 3

\* the size of a fragment read by file_checksum, standing for the 65536 of line 523
ChunkSize == 2

\* the largest file file_checksum is given, in bytes
MaxFileLen == 5

\* the longest list of nodes set_nodes_state is given
MaxListed == 3

\* the attempts of a wait started by set_nodes_state, standing for the
\* default loops=10 of line 251
DefaultLoops == 2

Nodes == {"n1", "n2", "n3"}

None == "None"

\* what a failed call of a remote API raises
RemoteError == "RemoteError"

\* what a StopIteration raised inside a generator becomes under PEP 479
RuntimeError == "RuntimeError"

(***************************************************************************)
(* Generic helpers                                                         *)
(***************************************************************************)
Range(s) == {s[i] : i \in 1..Len(s)}

SeqsUpTo(S, n) == UNION {[1..k -> S] : k \in 0..n}

NoDup(s) == \A i, j \in 1..Len(s) : i # j => s[i] # s[j]

\* index of the first occurrence of x in s (0 when absent)
IndexOf(s, x) ==
  IF x \in Range(s) THEN CHOOSE i \in 1..Len(s) : s[i] = x /\ \A j \in 1..(i-1) : s[j] # x
  ELSE 0

\* a remove that leaves the list as it is
ListRemoveNothing(s, x) == s

\* list.remove(x): drops the first occurrence of x
ListRemove(s, x) ==
  LET k == IndexOf(s, x)
  IN  [i \in 1..(Len(s) - 1) |-> IF i < k THEN s[i] ELSE s[i + 1]]

(***************************************************************************)
(* wait_for_node_introspection                                             *)
(***************************************************************************)
\* inspector_client.get_status(node_uuid, ...) in round r
GetStatus(n, r) ==
  LET fin == r >= it_finishAt[n]
  IN  [finished |-> fin,
       error    |-> IF fin /\ n = it_errnode THEN "introspection failed" ELSE None]

\* line 310: node_uuids = node_uuids[:]
SliceCopy(s) == [i \in 1..Len(s) |-> s[i]]

\* the element a list iterator that has handed out idx elements hands out next
IterHasNext(s, idx) == idx < Len(s)
IterNext(s, idx) == s[idx + 1]

\* lines 314 and 324: node_uuids.remove() shrinks the list under the running
\* iterator, whose index is not adjusted
QueryIdxAfterRemove(idx) == idx

ItInit ==
  /\ input_uuids \in SeqsUpTo(Nodes, Cardinality(Nodes))
  /\ node_uuids = << >>
  /\ it_loops \in 0..MaxLoops
  /\ it_finishAt \in [Nodes -> 1..(it_loops + 1)]
  /\ it_errnode \in Nodes \cup {None}
  /\ it_pc = "start"
  /\ it_exc = None
  /\ it_round = 0
  /\ it_idx = 0
  /\ it_yielded = << >>
  /\ it_queries = << >>
  /\ it_roundStart = << >>
  /\ it_sleeps = 0
  /\ it_logged = << >>

ItIdle ==
  /\ input_uuids = << >>
  /\ node_uuids = << >>
  /\ it_loops = 0
  /\ it_finishAt = [n \in Nodes |-> 1]
  /\ it_errnode = None
  /\ it_pc = "idle"
  /\ it_exc = None
  /\ it_round = 0
  /\ it_idx = 0
  /\ it_yielded = << >>
  /\ it_queries = << >>
  /\ it_roundStart = << >>
  /\ it_sleeps = 0
  /\ it_logged = << >>

\* first next(): lines 309-310
ItStart ==
  /\ it_pc = "start"
  /\ node_uuids' = SliceCopy(input_uuids)
  /\ it_pc' = "range"
  /\ UNCHANGED <<input_uuids, it_loops, it_finishAt, it_errnode, it_exc, it_round,
                 it_idx, it_yielded, it_queries, it_roundStart, it_sleeps, it_logged>>
  /\ UNCHANGED it_others

\* line 312: for _ in range(0, loops); line 314 creates the list iterator
ItRange ==
  /\ it_pc = "range"
  /\ IF it_round < it_loops
       THEN /\ it_round' = it_round + 1
            /\ it_idx' = 0
            /\ it_roundStart' = node_uuids
            /\ it_pc' = "for"
       ELSE /\ it_pc' = "after"
            /\ UNCHANGED <<it_round, it_idx, it_roundStart>>
  /\ UNCHANGED <<input_uuids, node_uuids, it_loops, it_finishAt, it_errnode, it_exc,
                 it_yielded, it_queries, it_sleeps, it_logged>>
  /\ UNCHANGED it_others

\* lines 314-325: one iteration of the inner loop.  get_status either answers
\* or raises; nothing in the generator catches what it raises
ItQuery ==
  /\ it_pc = "for"
  /\ IterHasNext(node_uuids, it_idx)
  /\ LET node_uuid == IterNext(node_uuids, it_idx)
         status    == GetStatus(node_uuid, it_round)
     IN  /\ it_queries' = Append(it_queries, <<it_round, node_uuid>>)
         /\ \E answered \in BOOLEAN :
              IF ~answered
                THEN /\ it_pc' = "raised"
                     /\ it_exc' = RemoteError
                     /\ UNCHANGED <<node_uuids, it_yielded, it_idx>>
                ELSE /\ UNCHANGED <<it_pc, it_exc>>
                     /\ IF status.finished
                          THEN /\ node_uuids' = ListRemove(node_uuids, node_uuid)
                               /\ it_yielded' = Append(it_yielded,
                                                       [node |-> node_uuid,
                                                        status |-> status,
                                                        round |-> it_round])
                               /\ it_idx' = QueryIdxAfterRemove(it_idx + 1)
                          ELSE /\ it_idx' = it_idx + 1
                               /\ UNCHANGED <<node_uuids, it_yielded>>
  /\ UNCHANGED <<input_uuids, it_loops, it_finishAt, it_errnode, it_round,
                 it_roundStart, it_sleeps, it_logged>>
  /\ UNCHANGED it_others

\* lines 327-329: the inner loop is over.  raise StopIteration inside a generator
\* ends it normally on the interpreters without PEP 479 (Python 2.7, 3.4-3.6)
\* and is turned into RuntimeError on those with it (Python 3.7 and later)
ItRoundEnd ==
  /\ it_pc = "for"
  /\ ~IterHasNext(node_uuids, it_idx)
  /\ IF Len(node_uuids) = 0
       THEN /\ \E pep479 \in BOOLEAN :
                 /\ it_pc' = IF pep479 THEN "raised" ELSE "done"
                 /\ it_exc' = IF pep479 THEN RuntimeError ELSE None
            /\ UNCHANGED it_sleeps
       ELSE /\ it_sleeps' = it_sleeps + 1
            /\ it_pc' = "range"
            /\ UNCHANGED it_exc
  /\ UNCHANGED <<input_uuids, node_uuids, it_loops, it_finishAt, it_errnode,
                 it_round, it_idx, it_yielded, it_queries, it_roundStart, it_logged>>
  /\ UNCHANGED it_others

\* lines 331-333: the budget is exhausted
ItExhausted ==
  /\ it_pc = "after"
  /\ it_logged' = IF Len(node_uuids) # 0 THEN node_uuids ELSE << >>
  /\ it_pc' = "done"
  /\ UNCHANGED <<input_uuids, node_uuids, it_loops, it_finishAt, it_errnode, it_exc,
                 it_round, it_idx, it_yielded, it_queries, it_roundStart, it_sleeps>>
  /\ UNCHANGED it_others

ItNext == ItStart \/ ItRange \/ ItQuery \/ ItRoundEnd \/ ItExhausted

(***************************************************************************)
(* wait_for_stack_ready and get_stack                                      *)
(***************************************************************************)
\* the stack of the remote service: its name and its UUID
OwnName == "overcloud"
OwnUuid == "5a1c-uuid"

\* resource names of events: the stack itself and a nested resource
ResourceNames == {OwnName, "Controller"}

Actions == {"CREATE", "UPDATE"}

\* lines 225 and 227: '%s_COMPLETE' % action, '%s_FAILED' % action
StatusOf(action, suffix) == action \o "_" \o suffix

\* the statuses of the events of a log polled for `action`: the two that end
\* the poll and a status of another action
Statuses(action) ==
  {StatusOf(action, "COMPLETE"), StatusOf(action, "FAILED")}
    \cup {StatusOf(a, "COMPLETE") : a \in Actions \ {action}}

\* marker=None (line 179)
NoMarker == 0

\* the id of the i-th event of the log (an opaque identifier)
EventId(i) == 100 + i

\* position in the log of the event a marker names (0: no marker)
PosOf(m) == IF m = NoMarker THEN 0 ELSE m - 100

MkEvent(i, e) == [id |-> EventId(i), resource_name |-> e.resource_name,
                  resource_status |-> e.resource_status]

EventLogs(action) ==
  {[i \in 1..Len(es) |-> MkEvent(i, es[i])] :
     es \in SeqsUpTo([resource_name : ResourceNames,
                      resource_status : Statuses(action)], MaxEvents)}

\* lines 207-210: event_utils.get_events(..., sort_dir asc, marker): the events
\* that exist and come after the marker, oldest first
GetEvents(m) == SubSeq(log, PosOf(m) + 1, published)

NoStack == [exists |-> FALSE, stack_name |-> None]
TheStack == [exists |-> TRUE, stack_name |-> OwnName]

\* get_stack without its except clause: HTTPNotFound reaches the caller
GetStackUncaught(outcome) ==
  CASE outcome = "found"    -> [value |-> TheStack, exc |-> None]
    [] outcome = "notfound" -> [value |-> NoStack, exc |-> "HTTPNotFound"]
    [] OTHER                -> [value |-> NoStack, exc |-> RemoteError]

\* get_stack with an except clause that swallows every exception
GetStackCatchAll(outcome) ==
  CASE outcome = "found"    -> [value |-> TheStack, exc |-> None]
    [] outcome = "notfound" -> [value |-> NoStack, exc |-> None]
    [] OTHER                -> [value |-> NoStack, exc |-> None]

\* lines 470-480: get_stack, given how orchestration_client.stacks.get ends
GetStack(outcome) ==
  CASE outcome = "found"    -> [value |-> TheStack, exc |-> None]
    [] outcome = "notfound" -> [value |-> NoStack, exc |-> None]
    [] OTHER                -> [value |-> NoStack, exc |-> RemoteError]

\* the marker taken from the first event of the batch, events[0]
MarkerOfFirst(events) == events[1].id

\* line 214: marker = getattr(events[-1], 'id', None)
MarkerOf(events) == events[Len(events)].id

\* the scan without the resource name test of line 221
RECURSIVE ScanEventsAnyResource(_, _, _)
ScanEventsAnyResource(events, name, action) ==
  IF events = << >> THEN None
  ELSE LET event == Head(events)
       IN  IF event.resource_status = StatusOf(action, "COMPLETE") THEN "True"
           ELSE IF event.resource_status = StatusOf(action, "FAILED") THEN "False"
           ELSE ScanEventsAnyResource(Tail(events), name, action)

\* the scan without the elif branch of lines 227-228
RECURSIVE ScanEventsCompleteOnly(_, _, _)
ScanEventsCompleteOnly(events, name, action) ==
  IF events = << >> THEN None
  ELSE LET event == Head(events)
       IN  IF event.resource_name = name
                /\ event.resource_status = StatusOf(action, "COMPLETE")
             THEN "True"
           ELSE ScanEventsCompleteOnly(Tail(events), name, action)

\* the scan taken from the newest event of the batch to the oldest
RECURSIVE ScanEventsDescending(_, _, _)
ScanEventsDescending(events, name, action) ==
  IF events = << >> THEN None
  ELSE LET event == events[Len(events)]
       IN  IF event.resource_name = name
                /\ event.resource_status = StatusOf(action, "COMPLETE")
             THEN "True"
           ELSE IF event.resource_name = name
                     /\ event.resource_status = StatusOf(action, "FAILED")
             THEN "False"
           ELSE ScanEventsDescending(SubSeq(events, 1, Len(events) - 1), name, action)

\* lines 219-228: the scan of a batch; None when no event ends the poll
RECURSIVE ScanEvents(_, _, _)
ScanEvents(events, name, action) ==
  IF events = << >> THEN None
  ELSE LET event == Head(events)
       IN  IF event.resource_name = name
                /\ event.resource_status = StatusOf(action, "COMPLETE")
             THEN "True"
           ELSE IF event.resource_name = name
                     /\ event.resource_status = StatusOf(action, "FAILED")
             THEN "False"
           ELSE ScanEvents(Tail(events), name, action)

WsInit ==
  /\ ws_action \in Actions
  /\ log \in EventLogs(ws_action)
  /\ published \in 0..Len(log)
  /\ ws_marker0 \in {NoMarker} \cup {EventId(i) : i \in 1..published}
  /\ stack = NoStack
  /\ stack_name \in {OwnName, OwnUuid}
  /\ marker = ws_marker0
  /\ ws_pc = "start"
  /\ ws_ret = None
  /\ ws_exc = None
  /\ ws_lookup = None
  /\ ws_seen = << >>
  /\ ws_fetched = FALSE
  /\ ws_slept = FALSE

WsIdle ==
  /\ ws_action = "CREATE"
  /\ log = << >>
  /\ published = 0
  /\ ws_marker0 = NoMarker
  /\ stack = NoStack
  /\ stack_name = OwnName
  /\ marker = NoMarker
  /\ ws_pc = "idle"
  /\ ws_ret = None
  /\ ws_exc = None
  /\ ws_lookup = None
  /\ ws_seen = << >>
  /\ ws_fetched = FALSE
  /\ ws_slept = FALSE

\* lines 201-204
WsStart ==
  /\ ws_pc = "start"
  /\ \E outcome \in {"found", "notfound", "error"} :
       LET r == GetStack(outcome)
       IN  /\ ws_lookup' = outcome
           /\ stack' = r.value
           /\ IF r.exc # None
                THEN /\ ws_pc' = "raised"
                     /\ ws_exc' = r.exc
                     /\ UNCHANGED <<ws_ret, stack_name>>
              ELSE IF ~r.value.exists
                THEN /\ ws_pc' = "done"
                     /\ ws_ret' = "False"
                     /\ UNCHANGED <<ws_exc, stack_name>>
              ELSE /\ ws_pc' = "poll"
                   /\ stack_name' = r.value.stack_name
                   /\ UNCHANGED <<ws_ret, ws_exc>>
  /\ UNCHANGED <<ws_action, ws_marker0, marker, log, published, ws_seen,
                 ws_fetched, ws_slept>>
  /\ UNCHANGED ws_others

\* lines 206-229: one iteration of the while loop, its sleep included
WsPoll ==
  /\ ws_pc = "poll"
  /\ ws_fetched' = TRUE
  /\ \E answered \in BOOLEAN :
       IF ~answered
         THEN /\ ws_pc' = "raised"
              /\ ws_exc' = RemoteError
              /\ UNCHANGED <<marker, ws_ret, ws_seen, ws_slept>>
         ELSE LET events == GetEvents(marker)
                  found  == IF Len(events) >= 1
                              THEN ScanEvents(events, stack_name, ws_action)
                              ELSE None
              IN  /\ marker' = IF Len(events) >= 1 THEN MarkerOf(events) ELSE marker
                  /\ ws_seen' = ws_seen \o [i \in 1..Len(events) |-> events[i].id]
                  /\ IF found # None
                       THEN /\ ws_pc' = "done"
                            /\ ws_ret' = found
                            /\ UNCHANGED ws_slept
                       ELSE /\ ws_slept' = TRUE
                            /\ UNCHANGED <<ws_pc, ws_ret>>
                  /\ UNCHANGED ws_exc
  /\ UNCHANGED <<ws_action, ws_marker0, stack, stack_name, log, published,
                 ws_lookup>>
  /\ UNCHANGED ws_others

\* the orchestration service records the next event of the stack
WsPublish ==
  /\ ws_pc \in {"start", "poll"}
  /\ published < Len(log)
  /\ published' = published + 1
  /\ UNCHANGED <<ws_action, ws_marker0, stack, stack_name, marker, ws_pc,
                 ws_ret, ws_exc, log, ws_lookup, ws_seen, ws_fetched, ws_slept>>
  /\ UNCHANGED ws_others

WsNext == WsStart \/ WsPoll \/ WsPublish

(***************************************************************************)
(* wait_for_provision_state                                                *)
(***************************************************************************)
ProvisionStates == {"enroll", "manageable", "available"}

\* what baremetal_client.node.get returns: a node, or None for a node that
\* cannot be found
NoNode == [found |-> FALSE, provision_state |-> None]
NodeIn(st) == [found |-> TRUE, provision_state |-> st]
NodeAnswers == {NoNode} \cup {NodeIn(st) : st \in ProvisionStates}

\* range(0, loops) with one iteration too many
LoopCountInclusive(loops) == loops + 1

\* line 273: the number of iterations of for _ in range(0, loops)
LoopCount(loops) == loops

\* the test of one attempt that keeps waiting for a node that is gone
AttemptResultGoneWaits(node, provision_state) ==
  IF node.found /\ node.provision_state = provision_state THEN "True" ELSE None

\* lines 277-283: the test of one attempt; None when the wait goes on
AttemptResult(node, provision_state) ==
  IF ~node.found THEN "True"
  ELSE IF node.provision_state = provision_state THEN "True"
  ELSE None

PvInit ==
  /\ pv_loops \in 0..MaxLoops
  /\ pv_target \in ProvisionStates
  /\ pv_i = 0
  /\ pv_pc = "loop"
  /\ pv_ret = None
  /\ pv_exc = None
  /\ pv_observed = << >>
  /\ pv_fetches = 0
  /\ pv_sleeps = 0

PvIdle ==
  /\ pv_loops = 0
  /\ pv_target = "available"
  /\ pv_i = 0
  /\ pv_pc = "idle"
  /\ pv_ret = None
  /\ pv_exc = None
  /\ pv_observed = << >>
  /\ pv_fetches = 0
  /\ pv_sleeps = 0

\* lines 273-285: one iteration of the for loop, its sleep included.  node.get
\* either answers or raises; nothing in the function catches what it raises
PvAttempt ==
  /\ pv_pc = "loop"
  /\ pv_i < LoopCount(pv_loops)
  /\ pv_i' = pv_i + 1
  /\ pv_fetches' = pv_fetches + 1
  /\ \/ /\ pv_pc' = "raised"
        /\ pv_exc' = RemoteError
        /\ UNCHANGED <<pv_ret, pv_observed, pv_sleeps>>
     \/ \E node \in NodeAnswers :
          LET result == AttemptResult(node, pv_target)
          IN  /\ pv_observed' = Append(pv_observed, node)
              /\ IF result # None
                   THEN /\ pv_pc' = "done"
                        /\ pv_ret' = result
                        /\ UNCHANGED pv_sleeps
                   ELSE /\ pv_sleeps' = pv_sleeps + 1
                        /\ UNCHANGED <<pv_pc, pv_ret>>
              /\ UNCHANGED pv_exc
  /\ UNCHANGED <<pv_loops, pv_target>>
  /\ UNCHANGED pv_others

\* line 287: the loop is exhausted
PvExhausted ==
  /\ pv_pc = "loop"
  /\ ~(pv_i < LoopCount(pv_loops))
  /\ pv_pc' = "done"
  /\ pv_ret' = "False"
  /\ UNCHANGED <<pv_loops, pv_target, pv_i, pv_exc, pv_observed, pv_fetches,
                 pv_sleeps>>
  /\ UNCHANGED pv_others

PvNext == PvAttempt \/ PvExhausted

(***************************************************************************)
(* generate_overcloud_passwords                                            *)
(*                                                                         *)
(* A string is a sequence of tokens: a credential name is one token, every *)
(* other character is a token of its own.                                  *)
(***************************************************************************)
_MIN_PASSWORD_SIZE == 25

AllPasswordNames ==
  <<"OVERCLOUD_ADMIN_PASSWORD", "OVERCLOUD_ADMIN_TOKEN",
    "OVERCLOUD_CEILOMETER_PASSWORD", "OVERCLOUD_CEILOMETER_SECRET",
    "OVERCLOUD_CINDER_PASSWORD", "OVERCLOUD_DEMO_PASSWORD",
    "OVERCLOUD_GLANCE_PASSWORD", "OVERCLOUD_HEAT_PASSWORD",
    "OVERCLOUD_HEAT_STACK_DOMAIN_PASSWORD", "OVERCLOUD_NEUTRON_PASSWORD",
    "OVERCLOUD_NOVA_PASSWORD", "OVERCLOUD_SWIFT_HASH",
    "OVERCLOUD_SWIFT_PASSWORD">>

\* lines 37-51, cut to the first NumNames names
_PASSWORD_NAMES == SubSeq(AllPasswordNames, 1, NumNames)

\* a name the file may hold that is none of _PASSWORD_NAMES
OtherNames == {"UNDERCLOUD_EXTRA_PASSWORD"}

EQ == "="
NL == "\n"

\* passutils.generate_password(size=_MIN_PASSWORD_SIZE): one of the random
\* strings of that size over the password alphabet
GeneratedPasswords == {[i \in 1..size |-> c] : size \in {_MIN_PASSWORD_SIZE}, c \in {"g", "h"}}

\* values a file written earlier may hold: empty, or a password set by hand,
\* which may hold any character but a line end
ExistingValues == {<< >>, <<"p">>, <<"q", "p">>, <<"p", EQ, "q">>}

\* str.splitlines()
\* the lines of text from position i on, the line being read starting at start
RECURSIVE SplitLinesFrom(_, _, _, _)
SplitLinesFrom(text, i, start, acc) ==
  IF i > Len(text)
    THEN (IF start > Len(text) THEN acc ELSE Append(acc, SubSeq(text, start, Len(text))))
  ELSE IF text[i] = NL
    THEN SplitLinesFrom(text, i + 1, i + 1, Append(acc, SubSeq(text, start, i - 1)))
  ELSE SplitLinesFrom(text, i + 1, start, acc)

SplitLines(text) == SplitLinesFrom(text, 1, 1, << >>)

\* str.split(sep)
RECURSIVE SplitFrom(_, _, _, _, _)
SplitFrom(line, sep, i, start, acc) ==
  IF i > Len(line) THEN Append(acc, SubSeq(line, start, Len(line)))
  ELSE IF line[i] = sep
    THEN SplitFrom(line, sep, i + 1, i + 1, Append(acc, SubSeq(line, start, i - 1)))
  ELSE SplitFrom(line, sep, i + 1, start, acc)

Split(line, sep) == SplitFrom(line, sep, 1, 1, << >>)

\* a dict: its items in insertion order, the keys distinct
DictHas(d, k) == \E i \in 1..Len(d) : d[i].k = k
DictValue(d, k) == d[CHOOSE i \in 1..Len(d) : d[i].k = k].v
DictSet(d, k, v) ==
  IF DictHas(d, k)
    THEN [i \in 1..Len(d) |-> IF d[i].k = k THEN [k |-> k, v |-> v] ELSE d[i]]
    ELSE Append(d, [k |-> k, v |-> v])

\* dict(pairs), every pair of length 2
RECURSIVE DictFromPairs(_, _, _)
DictFromPairs(pairs, i, d) ==
  IF i > Len(pairs) THEN d
  ELSE DictFromPairs(pairs, i + 1, DictSet(d, pairs[i][1], pairs[i][2]))

\* the test of line 68 that regenerates every credential
NeedsPasswordAlways(passwords, name) == TRUE

\* line 68: not passwords.get(name)
NeedsPassword(passwords, name) ==
  ~DictHas(passwords, <<name>>) \/ DictValue(passwords, <<name>>) = << >>

\* lines 67-70, from the i-th name on; gen[i] is what generate_password
\* returns for the i-th name
RECURSIVE FillMissing(_, _, _)
FillMissing(passwords, gen, i) ==
  IF i > Len(_PASSWORD_NAMES) THEN passwords
  ELSE LET name == _PASSWORD_NAMES[i]
       IN  FillMissing(IF NeedsPassword(passwords, name)
                         THEN DictSet(passwords, <<name>>, gen[i])
                         ELSE passwords,
                       gen, i + 1)

\* line 74: "{0}={1}\n".format(name, password)
FormatLine(name, password) == name \o <<EQ>> \o password \o <<NL>>

\* lines 72-74: the text written for the items in the order given
RECURSIVE WriteItems(_)
WriteItems(items) ==
  IF items = << >> THEN << >>
  ELSE FormatLine(Head(items).k, Head(items).v) \o WriteItems(Tail(items))

\* passwords.items(): insertion order on the interpreters that keep it, an
\* order of the interpreter's choosing on the others
ItemOrders(d) == {[i \in 1..Len(d) |-> d[p[i]]] : p \in Permutations(1..Len(d))}

NoFile == [exists |-> FALSE, text |-> << >>]

\* the files a run may find: none, or one holding a line for some of the names
FileEntries ==
  {es \in SeqsUpTo([k : {<<n>> : n \in Range(_PASSWORD_NAMES) \cup OtherNames},
                    v : ExistingValues],
                   Len(_PASSWORD_NAMES) + Cardinality(OtherNames)) :
     \A i, j \in 1..Len(es) : i # j => es[i].k # es[j].k}

Items(d) == {<<d[i].k, d[i].v>> : i \in 1..Len(d)}

PwInit ==
  /\ \/ /\ pw_file = NoFile
        /\ pw_before = {}
     \/ \E es \in FileEntries :
          /\ pw_file = [exists |-> TRUE, text |-> WriteItems(es)]
          /\ pw_before = Items(es)
  /\ pw_returned = {}
  /\ pw_exc = None
  /\ pw_calls = 0
  /\ pw_prevret = {}

PwIdle ==
  /\ pw_file = NoFile
  /\ pw_before = {}
  /\ pw_returned = {}
  /\ pw_exc = None
  /\ pw_calls = -1
  /\ pw_prevret = {}

\* lines 63-65: the file's lines, each split at "="; none when there is no file
ReadPairs(file) ==
  IF file.exists
    THEN LET lines == SplitLines(file.text)
         IN  [i \in 1..Len(lines) |-> Split(lines[i], EQ)]
    ELSE << >>

\* lines 62-76: one call
PwGenerate ==
  /\ pw_calls >= 0 /\ pw_calls < MaxCalls
  /\ pw_exc = None
  /\ pw_calls' = pw_calls + 1
  /\ \E pairs \in {ReadPairs(pw_file)} :
       IF \E i \in 1..Len(pairs) : Len(pairs[i]) # 2
         THEN /\ pw_exc' = "ValueError"
              /\ UNCHANGED <<pw_file, pw_returned, pw_before, pw_prevret>>
         ELSE \E read \in {DictFromPairs(pairs, 1, << >>)} :
              \E gen \in [1..Len(_PASSWORD_NAMES) -> GeneratedPasswords] :
                \* generate_password is called for the names in need only
                /\ \A i \in 1..Len(_PASSWORD_NAMES) :
                     ~NeedsPassword(read, _PASSWORD_NAMES[i])
                       => gen[i] = [j \in 1.._MIN_PASSWORD_SIZE |-> "g"]
                /\ \E passwords \in {FillMissing(read, gen, 1)} :
                     /\ \E items \in ItemOrders(passwords) :
                          pw_file' = [exists |-> TRUE, text |-> WriteItems(items)]
                     /\ pw_returned' = Items(passwords)
                     /\ pw_before' = IF pw_calls = 0 THEN pw_before
                                     ELSE pw_returned
                     /\ pw_prevret' = pw_returned
                     /\ UNCHANGED pw_exc
  /\ UNCHANGED pw_others

PwNext == PwGenerate

(***************************************************************************)
(* get_password and the process-wide cache.  Each caller runs get_password *)
(* once; inside it, generate_overcloud_passwords runs in the steps at      *)
(* which another caller can run in between: reading the file, opening it   *)
(* for writing (which truncates it), and closing it (which writes the      *)
(* buffered lines).                                                        *)
(***************************************************************************)
Callers == 1..NumCallers

\* the names a caller may ask for: a canonical one and one that is not
AskedNames == {_PASSWORD_NAMES[1]} \cup OtherNames

\* __password_cache = None (line 456)
NoCache == [isNone |-> TRUE, passwords |-> << >>]

\* what a write that does not complete raises
WriteError == "IOError"

\* the files a process may find: none, or one with a line for some of the
\* names, in the order of the names, each empty or set
CacheFileEntries ==
  LET names == _PASSWORD_NAMES \o <<CHOOSE n \in OtherNames : TRUE>>
  IN  {es \in FileEntries :
         /\ \A i \in 1..Len(es) : es[i].v \in {<< >>, <<"p">>}
         /\ \A i, j \in 1..Len(es) :
              i < j => IndexOf(names, es[i].k[1]) < IndexOf(names, es[j].k[1])}

\* a write of text at offset 0 of a file that holds old
WriteAtStart(old, text) == text \o SubSeq(old, Len(text) + 1, Len(old))

GpInit ==
  /\ \/ /\ pw_file = NoFile
        /\ gp_file0 = {}
     \/ \E es \in CacheFileEntries :
          /\ pw_file = [exists |-> TRUE, text |-> WriteItems(es)]
          /\ gp_file0 = Items(es)
  /\ pw_before = {}
  /\ pw_returned = {}
  /\ pw_exc = None
  /\ pw_calls = -1
  /\ pw_prevret = {}
  /\ __password_cache = NoCache
  /\ gp_name \in [Callers -> AskedNames]
  /\ gp_pc = [t \in Callers |-> "call"]
  /\ gp_local = [t \in Callers |-> << >>]
  /\ gp_ret = [t \in Callers |-> << >>]
  /\ gp_exc = [t \in Callers |-> None]
  /\ gp_runs = 0

GpIdle ==
  /\ __password_cache = NoCache
  /\ gp_name = [t \in Callers |-> _PASSWORD_NAMES[1]]
  /\ gp_pc = [t \in Callers |-> "idle"]
  /\ gp_local = [t \in Callers |-> << >>]
  /\ gp_ret = [t \in Callers |-> << >>]
  /\ gp_exc = [t \in Callers |-> None]
  /\ gp_runs = 0
  /\ gp_file0 = {}

\* line 465: if __password_cache is None
GpCheck(t) ==
  /\ gp_pc[t] = "call"
  /\ IF __password_cache.isNone
       THEN /\ gp_pc' = [gp_pc EXCEPT ![t] = "read"]
            /\ gp_runs' = gp_runs + 1
       ELSE /\ gp_pc' = [gp_pc EXCEPT ![t] = "return"]
            /\ UNCHANGED gp_runs
  /\ UNCHANGED <<__password_cache, gp_name, gp_local, gp_ret, gp_exc, gp_file0, pw_file>>
  /\ UNCHANGED gp_others

\* lines 62-70 of the call of line 466
GenRead(t) ==
  /\ gp_pc[t] = "read"
  /\ \E pairs \in {ReadPairs(pw_file)} :
       IF \E i \in 1..Len(pairs) : Len(pairs[i]) # 2
         THEN /\ gp_pc' = [gp_pc EXCEPT ![t] = "raised"]
              /\ gp_exc' = [gp_exc EXCEPT ![t] = "ValueError"]
              /\ UNCHANGED gp_local
         ELSE \E read \in {DictFromPairs(pairs, 1, << >>)} :
              \E gen \in [1..Len(_PASSWORD_NAMES) -> GeneratedPasswords] :
                /\ \A i \in 1..Len(_PASSWORD_NAMES) :
                     ~NeedsPassword(read, _PASSWORD_NAMES[i])
                       => gen[i] = [j \in 1.._MIN_PASSWORD_SIZE |-> "g"]
                /\ gp_local' = [gp_local EXCEPT ![t] = FillMissing(read, gen, 1)]
                /\ gp_pc' = [gp_pc EXCEPT ![t] = "open"]
                /\ UNCHANGED gp_exc
  /\ UNCHANGED <<__password_cache, gp_name, gp_ret, gp_runs, gp_file0, pw_file>>
  /\ UNCHANGED gp_others

\* line 72: open(output_file, 'w') creates the file or truncates it
GenOpen(t) ==
  /\ gp_pc[t] = "open"
  /\ pw_file' = [exists |-> TRUE, text |-> << >>]
  /\ gp_pc' = [gp_pc EXCEPT ![t] = "write"]
  /\ UNCHANGED <<__password_cache, gp_name, gp_local, gp_ret, gp_exc, gp_runs, gp_file0>>
  /\ UNCHANGED gp_others

\* lines 73-74 and the end of the with block: the lines gather in the file
\* object's buffer and reach the file, from its start, when it is closed
GenClose(t) ==
  /\ gp_pc[t] = "write"
  /\ \E items \in ItemOrders(gp_local[t]) :
       pw_file' = [exists |-> TRUE,
                   text |-> WriteAtStart(pw_file.text, WriteItems(items))]
  /\ gp_pc' = [gp_pc EXCEPT ![t] = "assign"]
  /\ UNCHANGED <<__password_cache, gp_name, gp_local, gp_ret, gp_exc, gp_runs, gp_file0>>
  /\ UNCHANGED gp_others

\* lines 73-74 cut short: an exception (an interrupt, a failed write) leaves
\* the with block after k of the lines, and closing the file writes those
GenInterrupt(t) ==
  /\ gp_pc[t] = "write"
  /\ \E items \in ItemOrders(gp_local[t]) :
     \E k \in 0..(Len(items) - 1) :
       pw_file' = [exists |-> TRUE,
                   text |-> WriteAtStart(pw_file.text, WriteItems(SubSeq(items, 1, k)))]
  /\ gp_pc' = [gp_pc EXCEPT ![t] = "raised"]
  /\ gp_exc' = [gp_exc EXCEPT ![t] = WriteError]
  /\ gp_local' = [gp_local EXCEPT ![t] = << >>]
  /\ UNCHANGED <<__password_cache, gp_name, gp_ret, gp_runs, gp_file0>>
  /\ UNCHANGED gp_others

\* line 466: the assignment to the global of what the call returned (line 76)
GpAssign(t) ==
  /\ gp_pc[t] = "assign"
  /\ __password_cache' = [isNone |-> FALSE, passwords |-> gp_local[t]]
  /\ gp_local' = [gp_local EXCEPT ![t] = << >>]
  /\ gp_pc' = [gp_pc EXCEPT ![t] = "return"]
  /\ UNCHANGED <<gp_name, gp_ret, gp_exc, gp_runs, gp_file0, pw_file>>
  /\ UNCHANGED gp_others

\* line 467: return __password_cache[pass_name]
GpReturn(t) ==
  /\ gp_pc[t] = "return"
  /\ IF DictHas(__password_cache.passwords, <<gp_name[t]>>)
       THEN /\ gp_ret' = [gp_ret EXCEPT
                            ![t] = DictValue(__password_cache.passwords, <<gp_name[t]>>)]
            /\ gp_pc' = [gp_pc EXCEPT ![t] = "done"]
            /\ UNCHANGED gp_exc
       ELSE /\ gp_exc' = [gp_exc EXCEPT ![t] = "KeyError"]
            /\ gp_pc' = [gp_pc EXCEPT ![t] = "raised"]
            /\ UNCHANGED gp_ret
  /\ UNCHANGED <<__password_cache, gp_name, gp_local, gp_runs, gp_file0, pw_file>>
  /\ UNCHANGED gp_others

GpStep(t) ==
  \/ GpCheck(t) \/ GenRead(t) \/ GenOpen(t) \/ GenClose(t) \/ GenInterrupt(t)
  \/ GpAssign(t) \/ GpReturn(t)

GpNext == \E t \in Callers : GpStep(t)

(***************************************************************************)
(* check_nodes_count                                                       *)
(***************************************************************************)
\* the scale parameters a deployment may carry
CountParams == {"ControllerCount", "ComputeCount"}

\* a dict is a function whose domain is its set of keys
DictsOver(keys, values) == UNION {[d -> values] : d \in SUBSET keys}

\* dict.get(key, default)
DictGetOr(d, key, default) == IF key \in DOMAIN d THEN d[key] ELSE default

\* the decimal strings the orchestration service records for the counts
Decimal == <<"0", "1", "2", "3", "4", "5", "6", "7", "8", "9">>

\* int(s) for a decimal string
IntOf(str) == (CHOOSE i \in 1..Len(Decimal) : Decimal[i] = str) - 1

\* stack=None (falsy at line 533)
CnNoStack == [exists |-> FALSE, parameters |-> << >>]

\* a node of the inventory
NodeFlags == [associated : BOOLEAN, maintenance : BOOLEAN]

\* the inventories of up to MaxNodes nodes, one per multiset of nodes
FlagRank(nd) == (IF nd.associated THEN 2 ELSE 0) + (IF nd.maintenance THEN 1 ELSE 0)
Inventories ==
  {inv \in SeqsUpTo(NodeFlags, MaxNodes) :
     \A i \in 1..(Len(inv) - 1) : FlagRank(inv[i]) <= FlagRank(inv[i + 1])}

\* baremetal_client.node.list(associated=..., maintenance=...); "any" stands
\* for a filter that is not given
NodeList(nodes, associated, maintenance) ==
  SelectSeq(nodes, LAMBDA nd :
    /\ nd.associated = associated
    /\ maintenance = "any" \/ nd.maintenance = (maintenance = "True"))

\* line 536 raising only for a parameter the overrides do not supply either
MissingInStackAndOverrides(stk, parameters, param) ==
  param \notin DOMAIN stk.parameters /\ param \notin DOMAIN parameters

\* line 536 raises KeyError
MissingInStack(stk, parameters, param) == param \notin DOMAIN stk.parameters

\* lines 536 and 540 with the stack's recorded value alone
RequestedOfStackOnly(stk, parameters, param) == IntOf(stk.parameters[param])

\* lines 536 and 540: the count asked for param when a stack exists
RequestedWithStack(stk, parameters, param) ==
  DictGetOr(parameters, param, IntOf(stk.parameters[param]))

\* line 543: the count asked for param when there is no stack
RequestedWithoutStack(parameters, defaults, param) ==
  DictGetOr(parameters, param, defaults[param])

\* lines 532-543: count after the loop over the parameters still to add
RECURSIVE CountOver(_, _, _, _)
CountOver(params, stk, parameters, defaults) ==
  IF params = {} THEN 0
  ELSE LET param == CHOOSE x \in params : TRUE
       IN  (IF stk.exists
              THEN RequestedWithStack(stk, parameters, param)
              ELSE RequestedWithoutStack(parameters, defaults, param))
           + CountOver(params \ {param}, stk, parameters, defaults)

\* the test of line 555 with >= for >
ExceedsOrEquals(count, ironic_nodes_count) == count >= ironic_nodes_count

\* line 555
Exceeds(count, ironic_nodes_count) == count > ironic_nodes_count

CnInit ==
  /\ cn_stack \in {CnNoStack}
       \cup {[exists |-> TRUE, parameters |-> ps] :
               ps \in DictsOver(CountParams, {Decimal[n + 1] : n \in 0..MaxCount})}
  /\ cn_parameters \in DictsOver(CountParams, 0..MaxCount)
  /\ cn_defaults \in DictsOver(CountParams, 0..MaxCount)
  /\ cn_nodes \in Inventories
  /\ cn_pc = "call"
  /\ cn_ret = None
  /\ cn_exc = None
  /\ cn_count = -1
  /\ cn_reported = << >>
  /\ cn_lists = 0

CnIdle ==
  /\ cn_stack = CnNoStack
  /\ cn_parameters = << >>
  /\ cn_defaults = << >>
  /\ cn_nodes = << >>
  /\ cn_pc = "idle"
  /\ cn_ret = None
  /\ cn_exc = None
  /\ cn_count = -1
  /\ cn_reported = << >>
  /\ cn_lists = 0

\* lines 532-560: one call
CnCheck ==
  /\ cn_pc = "call"
  /\ IF cn_stack.exists
        /\ \E param \in DOMAIN cn_defaults : MissingInStack(cn_stack, cn_parameters, param)
       THEN /\ cn_pc' = "raised"
            /\ cn_exc' = "ValueError"
            /\ UNCHANGED <<cn_ret, cn_count, cn_reported, cn_lists>>
       ELSE LET count == CountOver(DOMAIN cn_defaults, cn_stack, cn_parameters,
                                   cn_defaults)
                associated == Len(NodeList(cn_nodes, TRUE, "any"))
                available == Len(NodeList(cn_nodes, FALSE, "False"))
                ironic_nodes_count == associated + available
            IN  /\ cn_count' = count
                /\ cn_lists' = cn_lists + 2
                /\ IF Exceeds(count, ironic_nodes_count)
                     THEN /\ cn_pc' = "raised"
                          /\ cn_exc' = "DeploymentError"
                          /\ cn_reported' = <<ironic_nodes_count, count>>
                          /\ UNCHANGED cn_ret
                     ELSE /\ cn_pc' = "done"
                          /\ cn_ret' = "True"
                          /\ UNCHANGED <<cn_exc, cn_reported>>
  /\ UNCHANGED <<cn_stack, cn_parameters, cn_defaults, cn_nodes>>
  /\ UNCHANGED cn_others

CnNext == CnCheck

(***************************************************************************)
(* file_checksum                                                           *)
(***************************************************************************)
\* the bytes a file is made of, each with its value
ByteValues == [a |-> 97, b |-> 98]
Bytes == DOMAIN ByteValues

\* hashlib.md5(): the accumulator is a state that absorbs the bytes one after
\* another; the model keeps that shape with a small multiplicative hash
HashModulus == 65521
HashSeed == 7
HashMultiplier == 31

Md5New == HashSeed

\* checksum.update(fragment)
RECURSIVE Md5Update(_, _)
Md5Update(state, fragment) ==
  IF fragment = << >> THEN state
  ELSE Md5Update((state * HashMultiplier + ByteValues[Head(fragment)]) % HashModulus,
                 Tail(fragment))

HexDigits == <<"0", "1", "2", "3", "4", "5", "6", "7", "8", "9",
               "a", "b", "c", "d", "e", "f">>

\* the lowercase hexadecimal text of n on w digits
RECURSIVE Hex(_, _)
Hex(n, w) ==
  IF w = 0 THEN << >> ELSE Append(Hex(n \div 16, w - 1), HexDigits[(n % 16) + 1])

\* checksum.hexdigest()
HexDigest(state) == Hex(state, 4)

\* f.read(size) at position pos of a regular file: the next size bytes, fewer
\* at the end of the file, none after it
FileRead(content, pos, size) ==
  SubSeq(content, pos + 1, IF pos + size <= Len(content) THEN pos + size ELSE Len(content))

\* the loop left at the first fragment shorter than the size asked for
ShortRead(fragment) == Len(fragment) < ChunkSize

\* line 524: not fragment
EndOfFile(fragment) == Len(fragment) = 0

CkInit ==
  /\ ck_isfile \in BOOLEAN
  /\ ck_content \in SeqsUpTo(Bytes, MaxFileLen)
  /\ ck_pos = 0
  /\ checksum = Md5New
  /\ ck_pc = "call"
  /\ ck_ret = << >>
  /\ ck_exc = None
  /\ ck_reads = 0
  /\ ck_updates = 0

CkIdle ==
  /\ ck_isfile = FALSE
  /\ ck_content = << >>
  /\ ck_pos = 0
  /\ checksum = Md5New
  /\ ck_pc = "idle"
  /\ ck_ret = << >>
  /\ ck_exc = None
  /\ ck_reads = 0
  /\ ck_updates = 0

\* lines 517-521
CkOpen ==
  /\ ck_pc = "call"
  /\ IF ~ck_isfile
       THEN /\ ck_pc' = "raised"
            /\ ck_exc' = "ValueError"
       ELSE /\ ck_pc' = "loop"
            /\ UNCHANGED ck_exc
  /\ checksum' = Md5New
  /\ UNCHANGED <<ck_isfile, ck_content, ck_pos, ck_ret, ck_reads, ck_updates>>
  /\ UNCHANGED ck_others

\* lines 522-526: one iteration of the while loop
CkLoop ==
  /\ ck_pc = "loop"
  /\ LET fragment == FileRead(ck_content, ck_pos, ChunkSize)
     IN  /\ ck_reads' = ck_reads + 1
         /\ ck_pos' = ck_pos + Len(fragment)
         /\ IF EndOfFile(fragment)
              THEN /\ ck_pc' = "end"
                   /\ UNCHANGED <<checksum, ck_updates>>
              ELSE /\ checksum' = Md5Update(checksum, fragment)
                   /\ ck_updates' = ck_updates + 1
                   /\ UNCHANGED ck_pc
  /\ UNCHANGED <<ck_isfile, ck_content, ck_ret, ck_exc>>
  /\ UNCHANGED ck_others

\* line 527
CkReturn ==
  /\ ck_pc = "end"
  /\ ck_ret' = HexDigest(checksum)
  /\ ck_pc' = "done"
  /\ UNCHANGED <<ck_isfile, ck_content, ck_pos, checksum, ck_exc, ck_reads, ck_updates>>
  /\ UNCHANGED ck_others

CkNext == CkOpen \/ CkLoop \/ CkReturn

(***************************************************************************)
(* set_nodes_state.  Its wait is wait_for_provision_state: the generator   *)
(* starts the poller above and goes on when the poller has ended.          *)
(***************************************************************************)
\* the uuid of the i-th node of the list
UuidOf(i) == <<"n1", "n2", "n3", "n4", "n5", "n6", "n7", "n8", "n9">>[i]

NodeLists ==
  UNION {{[i \in 1..k |-> [uuid |-> UuidOf(i), provision_state |-> st[i]]] :
            st \in [1..k -> ProvisionStates]} : k \in 0..MaxListed}

\* the skip that lets every node through
IsSkippedNever(node, skipped_states) == FALSE

\* line 406
IsSkipped(node, skipped_states) == node.provision_state \in skipped_states

SnInit ==
  /\ sn_nodes \in NodeLists
  /\ sn_target \in {"manageable", "available"}
  /\ sn_skipped \in {{}, {"available"}, {"available", "enroll"}}
  /\ sn_idx = 0
  /\ sn_pc = "for"
  /\ sn_exc = None
  /\ sn_requests = << >>
  /\ sn_waits = << >>
  /\ sn_yielded = << >>

SnIdle ==
  /\ sn_nodes = << >>
  /\ sn_target = "available"
  /\ sn_skipped = {}
  /\ sn_idx = 0
  /\ sn_pc = "idle"
  /\ sn_exc = None
  /\ sn_requests = << >>
  /\ sn_waits = << >>
  /\ sn_yielded = << >>

\* lines 404-407: a node in a skipped state
SnSkip ==
  /\ sn_pc = "for"
  /\ sn_idx < Len(sn_nodes)
  /\ IsSkipped(sn_nodes[sn_idx + 1], sn_skipped)
  /\ sn_idx' = sn_idx + 1
  /\ UNCHANGED <<sn_nodes, sn_target, sn_skipped, sn_pc, sn_exc, sn_requests,
                 sn_waits, sn_yielded>>
  /\ UNCHANGED pv_vars
  /\ UNCHANGED sn_others

\* lines 404-416: the transition request and the call of
\* wait_for_provision_state with its default loops.  set_provision_state
\* either answers or raises; nothing in the generator catches what it raises
SnRequest ==
  /\ sn_pc = "for"
  /\ sn_idx < Len(sn_nodes)
  /\ ~IsSkipped(sn_nodes[sn_idx + 1], sn_skipped)
  /\ sn_requests' = Append(sn_requests, sn_nodes[sn_idx + 1].uuid)
  /\ \E answered \in BOOLEAN :
       IF ~answered
         THEN /\ sn_pc' = "raised"
              /\ sn_exc' = RemoteError
              /\ UNCHANGED pv_vars
         ELSE /\ sn_pc' = "wait"
              /\ UNCHANGED sn_exc
              /\ pv_loops' = DefaultLoops
              /\ pv_target' = sn_target
              /\ pv_i' = 0
              /\ pv_pc' = "loop"
              /\ pv_ret' = None
              /\ pv_exc' = None
              /\ pv_observed' = << >>
              /\ pv_fetches' = 0
              /\ pv_sleeps' = 0
  /\ UNCHANGED <<sn_nodes, sn_target, sn_skipped, sn_idx, sn_waits, sn_yielded>>
  /\ UNCHANGED sn_others

\* lines 415-420: the wait has ended
SnWaitEnd ==
  /\ sn_pc = "wait"
  /\ pv_pc \in {"done", "raised"}
  /\ IF pv_pc = "raised"
       THEN /\ sn_pc' = "raised"
            /\ sn_exc' = pv_exc
            /\ UNCHANGED <<sn_idx, sn_waits, sn_yielded>>
       ELSE /\ sn_waits' = Append(sn_waits, [uuid |-> sn_nodes[sn_idx + 1].uuid,
                                             ret |-> pv_ret])
            /\ sn_yielded' = IF pv_ret = "False" THEN sn_yielded
                             ELSE Append(sn_yielded, sn_nodes[sn_idx + 1].uuid)
            /\ sn_idx' = sn_idx + 1
            /\ sn_pc' = "for"
            /\ UNCHANGED sn_exc
  /\ UNCHANGED <<sn_nodes, sn_target, sn_skipped, sn_requests>>
  /\ UNCHANGED pv_vars
  /\ UNCHANGED sn_others

\* line 404: the list is exhausted
SnEnd ==
  /\ sn_pc = "for"
  /\ ~(sn_idx < Len(sn_nodes))
  /\ sn_pc' = "done"
  /\ UNCHANGED <<sn_nodes, sn_target, sn_skipped, sn_idx, sn_exc, sn_requests,
                 sn_waits, sn_yielded>>
  /\ UNCHANGED pv_vars
  /\ UNCHANGED sn_others

SnNext == SnSkip \/ SnRequest \/ PvAttempt \/ PvExhausted \/ SnWaitEnd \/ SnEnd

(***************************************************************************)
(* Specifications: one per helper                                          *)
(***************************************************************************)
InitIntrospection == ItInit /\ WsIdle /\ PvIdle /\ PwIdle /\ GpIdle /\ CnIdle /\ CkIdle /\ SnIdle

SpecIntrospection == InitIntrospection /\ [][ItNext]_vars

InitStack == WsInit /\ ItIdle /\ PvIdle /\ PwIdle /\ GpIdle /\ CnIdle /\ CkIdle /\ SnIdle

SpecStack == InitStack /\ [][WsNext]_vars

\* the while loop of line 206 keeps polling, and the orchestration service
\* goes on to record every event of the stack
FairSpecStack ==
  SpecStack /\ WF_vars(WsStart) /\ WF_vars(WsPoll) /\ WF_vars(WsPublish)

InitProvision == PvInit /\ ItIdle /\ WsIdle /\ PwIdle /\ GpIdle /\ CnIdle /\ CkIdle /\ SnIdle

SpecProvision == InitProvision /\ [][PvNext]_vars

\* the for loop of line 273 goes on until it returns or is exhausted
FairSpecProvision == SpecProvision /\ WF_vars(PvNext)

\* the three pollers, one of them running in a behaviour
InitPollers == InitIntrospection \/ InitStack \/ InitProvision

NextPollers == ItNext \/ WsNext \/ PvNext

SpecPollers == InitPollers /\ [][NextPollers]_vars

InitPasswords == PwInit /\ ItIdle /\ WsIdle /\ PvIdle /\ GpIdle /\ CnIdle /\ CkIdle /\ SnIdle

SpecPasswords == InitPasswords /\ [][PwNext]_vars

InitCache == GpInit /\ ItIdle /\ WsIdle /\ PvIdle /\ CnIdle /\ CkIdle /\ SnIdle

SpecCache == InitCache /\ [][GpNext]_vars

InitNodesCount == CnInit /\ ItIdle /\ WsIdle /\ PvIdle /\ PwIdle /\ GpIdle /\ CkIdle /\ SnIdle

SpecNodesCount == InitNodesCount /\ [][CnNext]_vars

InitChecksum == CkInit /\ ItIdle /\ WsIdle /\ PvIdle /\ PwIdle /\ GpIdle /\ CnIdle /\ SnIdle

SpecChecksum == InitChecksum /\ [][CkNext]_vars

\* the call runs on: each step of the function is taken
FairSpecChecksum == SpecChecksum /\ WF_vars(CkNext)

InitNodesState ==
  SnInit /\ PvIdle /\ ItIdle /\ WsIdle /\ PwIdle /\ GpIdle /\ CnIdle /\ CkIdle

SpecNodesState == InitNodesState /\ [][SnNext]_vars

\* the consumer keeps iterating, and the generator and its wait run on
FairSpecNodesState == SpecNodesState /\ WF_vars(SnNext)

(***************************************************************************)
(* Claims about wait_for_node_introspection                                *)
(***************************************************************************)
ItInnerLoopOver == it_pc = "for" /\ ~IterHasNext(node_uuids, it_idx)

ItYieldedIn(n, r) ==
  \E i \in 1..Len(it_yielded) : it_yielded[i].node = n /\ it_yielded[i].round = r

\* C1: when the inner loop of a round is over, every node that was outstanding
\* when the round started has been queried in that round, and every such node
\* whose status reports finished in that round has been removed and yielded in
\* that round.
C1_EveryOutstandingNodeQueriedEachRound ==
  (NoDup(input_uuids) /\ ItInnerLoopOver) =>
    \A n \in Range(it_roundStart) :
      /\ <<it_round, n>> \in Range(it_queries)
      /\ GetStatus(n, it_round).finished =>
           (n \notin Range(node_uuids) /\ ItYieldedIn(n, it_round))

\* C2: nodes are yielded in the order of the round from which they report
\* finished; a node that never reports finished within the budget is never
\* yielded; and the exhausted budget ends the generator without an exception.
C2_YieldOrderFollowsFinishRound ==
  NoDup(input_uuids) =>
    /\ \A i, j \in 1..Len(it_yielded) :
         i < j => it_finishAt[it_yielded[i].node] <= it_finishAt[it_yielded[j].node]
    /\ \A i \in 1..Len(it_yielded) : it_finishAt[it_yielded[i].node] <= it_loops
    /\ it_logged # << >> => (it_pc = "done" /\ it_exc = None)

\* C3: once the outstanding list is empty the generator makes no further
\* get_status call, does not sleep again, and does not end with an exception.
C3_EmptyListEndsNormally ==
  [][(it_pc \in {"range", "for", "after"} /\ Len(node_uuids) = 0) =>
       (/\ it_queries' = it_queries
        /\ it_sleeps' = it_sleeps
        /\ it_pc' # "raised"
        /\ it_exc' = None)]_vars

(***************************************************************************)
(* Claims about wait_for_stack_ready                                       *)
(***************************************************************************)
\* the events the poller is to consume: those after the marker it was given
Script == SubSeq(log, PosOf(ws_marker0) + 1, Len(log))

IsOwn(e, suffix) ==
  e.resource_name = OwnName /\ e.resource_status = StatusOf(ws_action, suffix)

ScriptEndsIn(suffix) == Script # << >> /\ IsOwn(Script[Len(Script)], suffix)

EarlierOwn(suffix) == \E i \in 1..(Len(Script) - 1) : IsOwn(Script[i], suffix)

ScriptConsumed == Script # << >> /\ Script[Len(Script)].id \in Range(ws_seen)

Last(q) == q[Len(q)]

\* C4 as stated: on an existing stack, whenever the events end in
\* <ACTION>_COMPLETE of the stack itself, the poller returns success with the
\* marker at the last event it fetched.
C4_CompleteScriptSucceeds ==
  (ws_lookup = "found" /\ ScriptEndsIn("COMPLETE") /\ ws_pc = "done") =>
    (ws_ret = "True" /\ ws_seen # << >> /\ marker = Last(ws_seen))

C4_Pre == ws_lookup = "found" /\ ScriptEndsIn("COMPLETE") /\ ~EarlierOwn("FAILED")

C4_AtEnd ==
  C4_Pre =>
    /\ ScriptConsumed => ws_pc = "done"
    /\ ws_pc = "done" =>
         /\ ws_ret = "True"
         /\ ws_seen # << >> /\ marker = Last(ws_seen)
         /\ ~EarlierOwn("COMPLETE") => marker = Last(Script).id

\* C4 amended: on an existing stack, when the events end in <ACTION>_COMPLETE
\* of the stack itself and no earlier event of the stack is <ACTION>_FAILED,
\* the poller terminates, returning success unless a call of the remote API
\* raised; the poll that fetches the final event ends it; and at its return the
\* marker is the id of the last event of the last batch it fetched (the final
\* event of the script when that is the stack's first <ACTION>_COMPLETE).
C4_CompleteScriptWithoutEarlierFailureSucceeds ==
  /\ []C4_AtEnd
  /\ C4_Pre ~> (ws_pc = "raised" \/ (ws_pc = "done" /\ ws_ret = "True"))

C4_Witness ==
  /\ C4_Pre
  /\ ws_pc = "done" /\ ws_ret = "True"
  /\ Len(Script) >= 2 /\ ws_slept /\ marker = Last(Script).id
  /\ ws_marker0 # NoMarker

\* C5 as stated: on an existing stack, whenever the events end in
\* <ACTION>_FAILED of the stack itself, the poller returns failure.
C5_FailedScriptFails ==
  (ws_lookup = "found" /\ ScriptEndsIn("FAILED") /\ ws_pc = "done") =>
    ws_ret = "False"

C5_Pre == ws_lookup = "found" /\ ScriptEndsIn("FAILED") /\ ~EarlierOwn("COMPLETE")

C5_AtEnd ==
  C5_Pre =>
    /\ ScriptConsumed => ws_pc = "done"
    /\ ws_pc = "done" => ws_ret = "False"

\* C5 amended: on an existing stack, when the events end in <ACTION>_FAILED of
\* the stack itself and no earlier event of the stack is <ACTION>_COMPLETE, the
\* poller terminates, returning failure unless a call of the remote API raised,
\* and the poll that fetches the final event ends it.
C5_FailedScriptWithoutEarlierSuccessFails ==
  /\ []C5_AtEnd
  /\ C5_Pre ~> (ws_pc = "raised" \/ (ws_pc = "done" /\ ws_ret = "False"))

C5_Witness ==
  /\ C5_Pre
  /\ ws_pc = "done" /\ ws_ret = "False"
  /\ Len(Script) >= 3 /\ ~EarlierOwn("FAILED") /\ ws_slept

\* C6: a poll that receives a non-empty batch sets the marker to the id of the
\* last event of that batch, whatever that event is; an empty batch leaves the
\* marker unchanged; the marker never moves back in the log nor back to "no
\* marker"; and no event is returned by two polls.
C6_MarkerOnlyAdvances ==
  [][(ws_pc = "poll" /\ published' = published /\ ws_pc' # "raised") =>
       LET events == GetEvents(marker)
       IN  /\ events = << >> => marker' = marker
           /\ events # << >> => marker' = events[Len(events)].id
           /\ PosOf(marker') >= PosOf(marker)
           /\ marker # NoMarker => marker' # NoMarker
           /\ NoDup(ws_seen')]_vars

C6_Witness ==
  /\ ws_pc = "poll" /\ Len(ws_seen) >= 2 /\ marker = Last(ws_seen)
  /\ log[PosOf(marker)].resource_name # OwnName
  /\ ws_marker0 # NoMarker

\* C7: when the stack is not found at the start, the poller has returned
\* failure without fetching events, without sleeping and without an exception.
C7_StackNotFoundReturnsFailure ==
  ws_lookup = "notfound" =>
    /\ ws_pc = "done" /\ ws_ret = "False" /\ ws_exc = None
    /\ ~ws_fetched /\ ~ws_slept /\ ws_seen = << >> /\ marker = ws_marker0

C7_Witness ==
  /\ ws_lookup = "notfound" /\ ws_pc = "done" /\ ws_ret = "False"
  /\ published > PosOf(ws_marker0)

(***************************************************************************)
(* Claims about wait_for_provision_state                                   *)
(***************************************************************************)
ShowsTarget(node) == node.found /\ node.provision_state = pv_target

C8_Counts ==
  /\ pv_fetches <= pv_loops
  /\ \A k \in 1..Len(pv_observed) :
       ShowsTarget(pv_observed[k]) =>
         /\ k = Len(pv_observed) /\ k <= pv_loops
         /\ pv_pc = "done" /\ pv_ret = "True" /\ pv_exc = None
         /\ pv_fetches = k /\ pv_sleeps = k - 1
  /\ (pv_pc = "done" /\ \A k \in 1..Len(pv_observed) :
                          pv_observed[k].found /\ ~ShowsTarget(pv_observed[k])) =>
       /\ pv_ret = "False" /\ pv_exc = None
       /\ pv_fetches = pv_loops /\ Len(pv_observed) = pv_loops
       /\ pv_sleeps = pv_loops
  /\ (pv_pc = "done" /\ pv_ret = "False") =>
       \A k \in 1..Len(pv_observed) :
         pv_observed[k].found /\ ~ShowsTarget(pv_observed[k])

\* C8: the poller terminates; when the k-th fetch shows the target state it
\* has returned success after exactly k fetches and k-1 sleeps, k within the
\* budget; when every fetch found the node in another state it returns
\* failure, without an exception, after exactly `loops` fetches; and it
\* returns failure in no other case.
C8_ProvisionPollerBudget ==
  /\ []C8_Counts
  /\ <>(pv_pc \in {"done", "raised"})

C8_Witness ==
  /\ pv_pc = "done" /\ pv_ret = "True"
  /\ Len(pv_observed) >= 2 /\ Len(pv_observed) < pv_loops
  /\ ShowsTarget(pv_observed[Len(pv_observed)])

\* C9: when a fetch finds the node gone, the poller has returned success at
\* that attempt, whatever the earlier fetches showed: that fetch is its last
\* one and it did not sleep after it.
C9_VanishedNodeIsSuccess ==
  \A k \in 1..Len(pv_observed) :
    ~pv_observed[k].found =>
      /\ k = Len(pv_observed)
      /\ pv_pc = "done" /\ pv_ret = "True" /\ pv_exc = None
      /\ pv_fetches = k /\ pv_sleeps = k - 1

C9_Witness ==
  /\ Len(pv_observed) >= 2
  /\ ~pv_observed[Len(pv_observed)].found
  /\ pv_pc = "done" /\ pv_ret = "True"

(***************************************************************************)
(* Claims about generate_overcloud_passwords                               *)
(***************************************************************************)
CanonicalKeys == {<<n>> : n \in Range(_PASSWORD_NAMES)}

HadValue(k) == \E kv \in pw_before : kv[1] = k /\ kv[2] # << >>

RECURSIVE TotalLen(_)
TotalLen(pairs) ==
  IF pairs = {} THEN 0
  ELSE LET kv == CHOOSE x \in pairs : TRUE
       IN  Len(kv[1]) + Len(kv[2]) + 2 + TotalLen(pairs \ {kv})

\* the text holds one NAME=value line for each of the pairs and nothing else
FileHolds(text, pairs) ==
  /\ Len(text) = TotalLen(pairs)
  /\ \A kv \in pairs :
       \E pos \in 1..Len(text) :
         /\ pos = 1 \/ text[pos - 1] = NL
         /\ pos + Len(kv[1]) + Len(kv[2]) + 1 <= Len(text)
         /\ SubSeq(text, pos, pos + Len(kv[1]) + Len(kv[2]) + 1)
              = kv[1] \o <<EQ>> \o kv[2] \o <<NL>>

\* what a call that returned leaves behind: every name of the earlier file
\* with a non-empty value, canonical or not, has that same value in the
\* returned mapping and in the rewritten file; every other pair of the
\* returned mapping is an unchanged pair of the earlier file or a newly
\* generated value for a canonical name that was missing or empty; the
\* rewritten file holds exactly the returned mapping; and a second call in a
\* row returns the same mapping.
PreservedAndFilled ==
    LET ret == pw_returned
    IN  /\ \A kv \in pw_before : kv[2] # << >> => kv \in ret
        /\ \A kv \in ret :
             \/ kv \in pw_before /\ (kv[2] # << >> \/ kv[1] \notin CanonicalKeys)
             \/ /\ kv[1] \in CanonicalKeys /\ ~HadValue(kv[1])
                /\ kv[2] \in GeneratedPasswords
        /\ \A kv1, kv2 \in ret : kv1[1] = kv2[1] => kv1 = kv2
        /\ pw_file.exists /\ FileHolds(pw_file.text, ret)
        /\ pw_calls >= 2 => ret = pw_prevret

\* C10: for any existing credential file, a call returns a mapping, and the
\* mapping and the rewritten file keep every non-empty value of the earlier
\* file, fill only the missing or empty canonical names, and are the same
\* when generation runs twice in a row.
C10_RegenerationIsIdempotent ==
  pw_calls >= 1 => (pw_exc = None /\ PreservedAndFilled)

\* the part of C10 that the code keeps: whenever a call returns, it has
\* preserved and filled as C10 says
C10_ReturnedRegenerationIsIdempotent ==
  (pw_calls >= 1 /\ pw_exc = None) => PreservedAndFilled

C10_Witness ==
  /\ pw_calls = 2 /\ pw_exc = None
  /\ \E kv \in pw_before : kv[1] \in CanonicalKeys /\ kv[2] \in GeneratedPasswords
  /\ \E kv \in pw_before : kv[1] \notin CanonicalKeys /\ kv[2] # << >>
  /\ \E kv \in pw_before : kv[1] \in CanonicalKeys /\ kv[2] \in ExistingValues \ {<< >>}

\* the text holds the line NAME=value of the pair
FileHasLine(text, kv) ==
  \E pos \in 1..Len(text) :
    /\ pos = 1 \/ text[pos - 1] = NL
    /\ pos + Len(kv[1]) + Len(kv[2]) + 1 <= Len(text)
    /\ SubSeq(text, pos, pos + Len(kv[1]) + Len(kv[2]) + 1)
         = kv[1] \o <<EQ>> \o kv[2] \o <<NL>>

\* every canonical name has a non-empty value, of at least the minimum length
\* when it was generated by the last call, in the returned mapping and in the
\* persisted file
AllCanonicalPresent ==
  \A k \in CanonicalKeys :
    \E kv \in pw_returned :
      /\ kv[1] = k /\ kv[2] # << >>
      /\ ~HadValue(k) => Len(kv[2]) >= _MIN_PASSWORD_SIZE
      /\ pw_file.exists /\ FileHasLine(pw_file.text, kv)

\* C11: after any call, whatever the file held before, every canonical name is
\* present with a non-empty value (of at least 25 characters when newly
\* generated) in the returned mapping and in the persisted file.
C11_AllCanonicalNamesPresentAfterCall ==
  pw_calls >= 1 => AllCanonicalPresent

\* the part of C11 that the code keeps: it holds after every call that returns
C11_AllCanonicalNamesPresentAfterReturn ==
  (pw_calls >= 1 /\ pw_exc = None) => AllCanonicalPresent

(***************************************************************************)
(* Claims about get_password and the credential cache                      *)
(***************************************************************************)
\* C12: a caller that asks for a name outside the canonical names never gets a
\* value: its call does not return.
C12_NonCanonicalNameNeverReturned ==
  \A t \in Callers :
    gp_name[t] \notin Range(_PASSWORD_NAMES) => gp_pc[t] # "done"

\* the part of C12 that the code keeps: a name that neither the file nor the
\* canonical names hold ends the call with KeyError
C12_UnknownNameRaisesKeyError ==
  \A t \in Callers :
    (/\ gp_name[t] \notin Range(_PASSWORD_NAMES)
     /\ gp_pc[t] \in {"done", "raised"}
     /\ gp_runs = 1 /\ gp_exc[t] # WriteError
     /\ \A kv \in gp_file0 : kv[1] # <<gp_name[t]>>)
      => (gp_pc[t] = "raised" /\ gp_exc[t] = "KeyError")

\* C13: credential generation runs at most once in the process, and two
\* callers that asked for the same name got the same value.
C13_CacheInitialisedOnce ==
  /\ gp_runs <= 1
  /\ \A t, u \in Callers :
       (gp_pc[t] = "done" /\ gp_pc[u] = "done" /\ gp_name[t] = gp_name[u])
         => gp_ret[t] = gp_ret[u]

\* C13, its second half alone: callers of the same name got the same value
C13_CallersObserveSameValue ==
  \A t, u \in Callers :
    (gp_pc[t] = "done" /\ gp_pc[u] = "done" /\ gp_name[t] = gp_name[u])
      => gp_ret[t] = gp_ret[u]

\* C18: when the only call of generate_overcloud_passwords so far failed
\* during its write, the file still holds every NAME=value line with a
\* non-empty value that it held before the call.
C18_FailedWriteKeepsOldValues ==
  \A t \in Callers :
    (gp_pc[t] = "raised" /\ gp_exc[t] = WriteError /\ gp_runs = 1) =>
      \A kv \in gp_file0 :
        kv[2] # << >> => (pw_file.exists /\ FileHasLine(pw_file.text, kv))

(***************************************************************************)
(* Claims about check_nodes_count                                          *)
(***************************************************************************)
CnNodeIds == 1..Len(cn_nodes)

\* associated nodes, in maintenance or not, plus the unassociated nodes that
\* are not in maintenance
CnAvailable ==
  Cardinality({i \in CnNodeIds : cn_nodes[i].associated})
    + Cardinality({i \in CnNodeIds :
                     ~cn_nodes[i].associated /\ ~cn_nodes[i].maintenance})

RECURSIVE SumOf(_)
SumOf(f) ==
  IF DOMAIN f = {} THEN 0
  ELSE LET x == CHOOSE y \in DOMAIN f : TRUE
       IN  f[x] + SumOf([y \in DOMAIN f \ {x} |-> f[y]])

CnMissing == {p \in DOMAIN cn_defaults : p \notin DOMAIN cn_stack.parameters}

\* C14: a call that got as far as the inventory fails with DeploymentError
\* reporting (available, requested) exactly when the requested total exceeds
\* the available count, and returns True otherwise, equality included.
C14_FailsExactlyWhenRequestedExceedsAvailable ==
  /\ (cn_pc \in {"done", "raised"} /\ cn_exc # "ValueError") => cn_count >= 0
  /\ cn_count >= 0 =>
       IF cn_count > CnAvailable
         THEN /\ cn_pc = "raised" /\ cn_exc = "DeploymentError" /\ cn_ret = None
              /\ cn_reported = <<CnAvailable, cn_count>>
         ELSE /\ cn_pc = "done" /\ cn_ret = "True" /\ cn_exc = None
              /\ cn_reported = << >>

C14_Witness ==
  /\ cn_pc = "done" /\ cn_ret = "True"
  /\ cn_count = CnAvailable /\ cn_count >= 2
  /\ \E i \in CnNodeIds : cn_nodes[i].associated /\ cn_nodes[i].maintenance
  /\ \E i \in CnNodeIds : ~cn_nodes[i].associated /\ cn_nodes[i].maintenance

\* C15 as stated: with a stack the requested total is the sum of the stack's
\* recorded values over the default-bearing parameters; without one it is the
\* sum of the overrides, falling back to the defaults.
C15_RequestedFromStackWhenStackExists ==
  cn_count >= 0 =>
    cn_count = SumOf([p \in DOMAIN cn_defaults |->
                        IF cn_stack.exists
                          THEN IntOf(cn_stack.parameters[p])
                          ELSE IF p \in DOMAIN cn_parameters THEN cn_parameters[p]
                          ELSE cn_defaults[p]])

\* C15 amended: the requested count of each default-bearing parameter is the
\* override when the override mapping has one; otherwise it is the stack's
\* recorded value when a stack exists and the static default when none does;
\* the requested total is the sum over exactly the default-bearing parameters.
C15_RequestedFromOverrideThenStackOrDefault ==
  cn_count >= 0 =>
    cn_count = SumOf([p \in DOMAIN cn_defaults |->
                        IF p \in DOMAIN cn_parameters THEN cn_parameters[p]
                        ELSE IF cn_stack.exists THEN IntOf(cn_stack.parameters[p])
                        ELSE cn_defaults[p]])

C15_Witness ==
  /\ cn_count >= 0 /\ cn_stack.exists
  /\ \E p \in DOMAIN cn_defaults :
       p \in DOMAIN cn_parameters /\ cn_parameters[p] # IntOf(cn_stack.parameters[p])
  /\ \E p \in DOMAIN cn_defaults :
       p \notin DOMAIN cn_parameters /\ IntOf(cn_stack.parameters[p]) # cn_defaults[p]

\* C16: when a stack exists and lacks a default-bearing parameter, the call
\* has failed with ValueError without any inventory query, whether or not the
\* override mapping supplies the parameter.
C16_MissingStackParameterFailsFirst ==
  (cn_pc # "call" /\ cn_stack.exists /\ CnMissing # {}) =>
    /\ cn_pc = "raised" /\ cn_exc = "ValueError" /\ cn_ret = None
    /\ cn_lists = 0 /\ cn_count = -1 /\ cn_reported = << >>

C16_Witness ==
  /\ cn_pc = "raised" /\ cn_exc = "ValueError" /\ cn_stack.exists
  /\ CnMissing # {} /\ CnMissing \subseteq DOMAIN cn_parameters
  /\ cn_nodes # << >>

(***************************************************************************)
(* Claims about the three pollers together                                 *)
(***************************************************************************)
\* a poller that a failed remote call has ended: the exception is the call's
\* own, nothing was returned
C17_Raised ==
  /\ pv_exc # None => (pv_exc = RemoteError /\ pv_pc = "raised" /\ pv_ret = None)
  /\ ws_exc # None => (ws_exc = RemoteError /\ ws_pc = "raised" /\ ws_ret = None)
  /\ it_exc = RemoteError => it_pc = "raised"
  /\ ws_lookup = "error" => ws_exc = RemoteError
  /\ (ws_pc = "done" /\ ws_lookup # "notfound") => (ws_lookup = "found" /\ ws_seen # << >>)
  /\ pv_pc = "done" => Len(pv_observed) = pv_fetches

\* the step in which a remote call fails makes that one call and does not sleep
C17_FailingStep ==
  /\ (pv_exc = None /\ pv_exc' = RemoteError) =>
       (pv_fetches' = pv_fetches + 1 /\ pv_sleeps' = pv_sleeps
        /\ pv_observed' = pv_observed)
  /\ (ws_exc = None /\ ws_exc' = RemoteError) =>
       (ws_slept' = ws_slept /\ ws_seen' = ws_seen /\ marker' = marker)
  /\ (it_exc = None /\ it_exc' = RemoteError) =>
       (Len(it_queries') = Len(it_queries) + 1 /\ it_sleeps' = it_sleeps
        /\ it_yielded' = it_yielded)

\* after the failure the poller does nothing more
C17_NothingAfter ==
  /\ pv_pc = "raised" => UNCHANGED pv_vars
  /\ ws_pc = "raised" => UNCHANGED <<ws_pc, ws_ret, ws_exc, ws_seen, ws_fetched,
                                     ws_slept, marker>>
  /\ (it_pc = "raised" /\ it_exc = RemoteError) => UNCHANGED it_vars

\* C17: a failed remote call in a poller (node fetch, event fetch, stack lookup
\* other than not-found, status query) ends the poller with that exception in
\* the same step, with no value returned, no retry, no further fetch and no
\* sleep; only a stack that is not found at the start becomes a return value.
C17_RemoteFailurePropagates ==
  /\ []C17_Raised
  /\ [][C17_FailingStep /\ C17_NothingAfter]_vars

C17_Witness ==
  /\ ws_pc = "raised" /\ ws_exc = RemoteError
  /\ ws_lookup = "found" /\ ws_slept /\ ws_seen # << >>

(***************************************************************************)
(* Claims about the scan order of wait_for_stack_ready                     *)
(***************************************************************************)
\* the events the poller has received, in the order it received them
SeenEvents == [i \in 1..Len(ws_seen) |-> log[PosOf(ws_seen[i])]]

\* an event of the stack itself with a status that ends the poll
OwnTerminal(e) == IsOwn(e, "COMPLETE") \/ IsOwn(e, "FAILED")

SeenTerminal == {i \in 1..Len(ws_seen) : OwnTerminal(SeenEvents[i])}

FirstSeenTerminal == CHOOSE i \in SeenTerminal : \A j \in SeenTerminal : i <= j

\* C20: the events reach the poller in ascending order, within and across
\* batches; as long as none of them is an event of the stack itself with status
\* <ACTION>_COMPLETE or <ACTION>_FAILED the poll goes on; once one is, the poll
\* that received it has returned, success when the first such event is
\* <ACTION>_COMPLETE and failure when it is <ACTION>_FAILED, whatever follows
\* it in the batch; and a found stack makes the poller return in no other way.
C20_FirstTerminalEventDecides ==
  /\ \A i, j \in 1..Len(ws_seen) : i < j => PosOf(ws_seen[i]) < PosOf(ws_seen[j])
  /\ (ws_pc = "done" /\ ws_lookup = "found") => SeenTerminal # {}
  /\ SeenTerminal # {} =>
       /\ ws_pc = "done" /\ ws_exc = None
       /\ ws_ret = "True" <=> IsOwn(SeenEvents[FirstSeenTerminal], "COMPLETE")
       /\ ws_ret = "False" <=> IsOwn(SeenEvents[FirstSeenTerminal], "FAILED")

C20_Witness ==
  /\ ws_pc = "done" /\ ws_ret = "False" /\ ws_lookup = "found"
  /\ Len(ws_seen) >= 3 /\ FirstSeenTerminal = 2
  /\ SeenEvents[1].resource_name # OwnName
  /\ SeenEvents[1].resource_status = StatusOf(ws_action, "COMPLETE")
  /\ IsOwn(SeenEvents[3], "COMPLETE")

(***************************************************************************)
(* Claims about file_checksum                                              *)
(***************************************************************************)
\* the digest of the whole content hashed at once
WholeDigest == HexDigest(Md5Update(Md5New, ck_content))

\* the number of fragments a file of n bytes is read in
Fragments(n) == (n + ChunkSize - 1) \div ChunkSize

C19_AtReturn ==
  /\ ck_pc \in {"end", "done"} =>
       /\ ck_pos = Len(ck_content)
       /\ ck_updates = Fragments(Len(ck_content))
       /\ ck_reads = ck_updates + 1
       /\ checksum = Md5Update(Md5New, ck_content)
  /\ ck_pc = "done" => (ck_ret = WholeDigest /\ ck_exc = None)
  /\ ck_pc = "loop" => checksum = Md5Update(Md5New, SubSeq(ck_content, 1, ck_pos))

\* C19: for every regular file, the digest returned after feeding the content
\* in fragments of the chunk size equals the digest of the whole content
\* hashed at once, every byte having been fed once and in order, and the read
\* loop ends: the call returns (or raises, for a path that is no regular file).
C19_ChunkingDoesNotChangeDigest ==
  /\ []C19_AtReturn
  /\ <>(ck_pc \in {"done", "raised"})
  /\ [](ck_isfile => <>(ck_pc = "done"))

C19_Witness ==
  /\ ck_pc = "done" /\ ck_ret = WholeDigest
  /\ Len(ck_content) > 2 * ChunkSize /\ Len(ck_content) % ChunkSize # 0
  /\ "a" \in Range(ck_content) /\ "b" \in Range(ck_content)


(***************************************************************************)
(* set_nodes_state: one node after another                                 *)
(***************************************************************************)
\* the i-th node of the list was listed in one of the skipped states
InSkippedState(i) == sn_nodes[i].provision_state \in sn_skipped

\* the uuids of the nodes, among the first k of the list, that are not skipped
RECURSIVE NotSkippedUpTo(_)
NotSkippedUpTo(k) ==
  IF k = 0 THEN << >>
  ELSE IF InSkippedState(k) THEN NotSkippedUpTo(k - 1)
  ELSE Append(NotSkippedUpTo(k - 1), sn_nodes[k].uuid)

\* the uuids of the first k waits that returned something else than False
RECURSIVE SucceededUpTo(_)
SucceededUpTo(k) ==
  IF k = 0 THEN << >>
  ELSE IF sn_waits[k].ret = "False" THEN SucceededUpTo(k - 1)
  ELSE Append(SucceededUpTo(k - 1), sn_waits[k].uuid)

\* the list entries the loop has reached: the ones it is done with and the one
\* it is on
SnReached == IF sn_pc = "wait" \/ (sn_pc = "raised" /\ Len(sn_requests) > Len(sn_waits))
               THEN sn_idx + 1 ELSE sn_idx

\* the requests are those of the not skipped nodes reached so far, one each and in
\* the order of the list; the waits that ended are those of the requests, in
\* order, the last request's being possibly still open; the yielded uuids are
\* those of the waits that succeeded; state is fetched only inside a wait; at
\* the normal end every node has been reached
C21_OneRequestPerNodeInOrder ==
  sn_pc # "idle" =>
    /\ sn_requests = NotSkippedUpTo(SnReached)
    /\ Len(sn_waits) \in {Len(sn_requests), Len(sn_requests) - 1}
    /\ \A i \in 1..Len(sn_waits) : sn_waits[i].uuid = sn_requests[i]
    /\ sn_yielded = SucceededUpTo(Len(sn_waits))
    /\ \A i \in 1..Len(sn_nodes) :
         InSkippedState(i) =>
           /\ sn_nodes[i].uuid \notin Range(sn_requests)
           /\ sn_nodes[i].uuid \notin Range(sn_yielded)
    /\ pv_pc = "loop" => sn_pc = "wait"
    /\ sn_pc = "wait" => Len(sn_waits) = Len(sn_requests) - 1
    /\ sn_pc = "done" => /\ SnReached = Len(sn_nodes)
                         /\ Len(sn_waits) = Len(sn_requests)

\* a step that issues a request finds the previous node's wait ended and no
\* state of the node fetched yet; a step that fetches a node's state is inside
\* the wait of the last request; a step that ends a wait with a failure goes
\* on to the next list entry
C21_StepsInOrder ==
  /\ Len(sn_requests') > Len(sn_requests) =>
       /\ Len(sn_waits) = Len(sn_requests)
       /\ pv_pc # "loop"
       /\ sn_pc' = "wait" => pv_fetches' = 0
  /\ pv_fetches' > pv_fetches =>
       /\ sn_pc = "wait"
       /\ Len(sn_requests) = Len(sn_waits) + 1
       /\ UNCHANGED sn_vars
  /\ (Len(sn_waits') > Len(sn_waits) /\ sn_waits'[Len(sn_waits')].ret = "False") =>
       /\ sn_pc' = "for"
       /\ sn_idx' = sn_idx + 1
       /\ sn_yielded' = sn_yielded

\* C21: set_nodes_state handles the nodes strictly one after another: a node in
\* a skipped state gets no transition request and is never yielded; every other
\* node gets exactly one request, before any fetch of its state and after the
\* previous node's wait has ended; a uuid is yielded exactly when its wait
\* succeeded; a failed wait does not stop the loop, which ends unless a call of
\* the remote API raises
C21_NodesHandledOneAfterAnother ==
  /\ []C21_OneRequestPerNodeInOrder
  /\ [][C21_StepsInOrder]_vars
  /\ <>(sn_pc \in {"done", "raised"})

\* the generator ended normally over a skipped node, then a node whose wait
\* failed, then a node whose wait succeeded
C21_Witness ==
  /\ sn_pc = "done"
  /\ Len(sn_nodes) = 3
  /\ InSkippedState(1)
  /\ sn_requests = <<UuidOf(2), UuidOf(3)>>
  /\ sn_waits = <<[uuid |-> UuidOf(2), ret |-> "False"], [uuid |-> UuidOf(3), ret |-> "True"]>>
  /\ sn_yielded = <<UuidOf(3)>>
  /\ pv_fetches > 0


(***************************************************************************)
(* wait_for_node_introspection: what is yielded and what is queried        *)
(***************************************************************************)
\* the positions in it_queries of the queries of node n
QueriesOf(n) == {q \in 1..Len(it_queries) : it_queries[q][2] = n}

\* the i-th yield is the last time its node was queried: its round holds one
\* query of the node and no later round holds any
NotQueriedAfterYield(i) ==
  LET n == it_yielded[i].node
      r == it_yielded[i].round
  IN  /\ \A q \in QueriesOf(n) : it_queries[q][1] <= r
      /\ Cardinality({q \in QueriesOf(n) : it_queries[q][1] = r}) = 1

\* over a list without duplicates: every yielded pair is a uuid of the input
\* with a status whose finished flag is set, no uuid is yielded twice, no node
\* is queried after its yield, the rounds stay within the budget, and the
\* input list still holds every uuid the working list has lost
C22_YieldsAndQueriesWithinBounds ==
  NoDup(input_uuids) =>
    /\ \A i \in 1..Len(it_yielded) :
         /\ it_yielded[i].node \in Range(input_uuids)
         /\ it_yielded[i].status.finished
         /\ it_yielded[i].status = GetStatus(it_yielded[i].node, it_yielded[i].round)
         /\ NotQueriedAfterYield(i)
         /\ it_yielded[i].node \notin Range(node_uuids)
    /\ \A i, j \in 1..Len(it_yielded) :
         it_yielded[i].node = it_yielded[j].node => i = j
    /\ it_round <= it_loops
    /\ \A q \in 1..Len(it_queries) : it_queries[q][1] \in 1..it_loops
    /\ it_pc \notin {"idle", "start"} =>
         Len(input_uuids) = Len(node_uuids) + Len(it_yielded)

\* no step changes the list the caller passed
C22_InputListUnchanged == input_uuids' = input_uuids

\* C22: for wait_for_node_introspection over a list without duplicates, every
\* yielded pair is (a uuid of the input list, a status with finished set), no
\* uuid is yielded more than once, a node is never queried again after it was
\* yielded, the number of rounds never exceeds loops, and the caller's list is
\* left as it was
C22_IntrospectionYieldsOncePerNode ==
  /\ []C22_YieldsAndQueriesWithinBounds
  /\ [][C22_InputListUnchanged]_vars

\* three distinct nodes, the whole budget used: one node was yielded in an
\* earlier round, another later, and the rounds after the first yield queried
\* the nodes still waited for
C22_Witness ==
  /\ NoDup(input_uuids)
  /\ Len(input_uuids) = 3
  /\ it_pc = "done"
  /\ it_round = it_loops
  /\ Len(it_yielded) = 2
  /\ it_yielded[1].round < it_yielded[2].round
  /\ Len(node_uuids) = 1
  /\ \E q \in 1..Len(it_queries) : it_queries[q][1] > it_yielded[1].round

====
